---- MODULE Spec2Model ----
(***************************************************************************)
(* Model of the spectrum-analyzer client (erikAdleyba/spectral_analizator). *)
(*                                                                         *)
(*  - src/arduino_spectr.py : the Qt variant.  SpectrumWorker.run connects *)
(*    to the device, reads bytes, reassembles frames out of self.buffer    *)
(*    and hands each decoded frame to detection / data_updated.            *)
(*  - src/ex2_Test.py : the Tk variant.  get_spectrum_float does one       *)
(*    blocking query/response exchange; update_spectrum and                *)
(*    background_processing run the EMA / hysteresis detection per range.  *)
(*                                                                         *)
(* Bytes are integers 0..255, byte strings are sequences of bytes.         *)
(***************************************************************************)
EXTENDS Integers, Sequences, FiniteSets, TLC

VARIABLES
    script,     \* reassembler input: the scripted byte stream chosen at start (<<>>: free input)
    pending,    \* the part of the script the transport has not delivered yet
    fed,        \* every byte ser.read has returned so far, in order
    reads,      \* how many reads have returned data
    buffer,     \* SpectrumWorker.buffer
    emitted,    \* the frames passed to data_updated, in order
    \* ex2_Test.py, SpectrumAnalyzerApp
    serial_conn,        \* TRUE: self.serial_conn is a connection, FALSE: it is None
    scan_ranges,        \* list of (start, stop, threshold)
    alert_flags,        \* list of alert_flags[i]['high']
    ema_values,         \* list: <<>> for None, <<e>> for the EMA e = num/den
    stability_counter,  \* list of counters
    mainPc,             \* "idle": update_spectrum is scheduled; "bg": inside
                        \* background_processing; "dead": the callback raised
    bgI,                \* index of the range background_processing handles next
    lastFrame,          \* the response the query just made accepted as a frame (<<>>: none)
    alertLog,           \* the show_alert calls: range index and run length
    run,                \* per range: consecutive cycles above thresholdHigh
    sinceLow,           \* per range: alerts since the last cycle at or below thresholdLow
    emaSteps,           \* number of EMA updates done
    \* arduino_spectr.py, SpectrumWorker and MainWindow
    wpc,                \* where SpectrumWorker.run is
    ser,                \* self.ser: "unset" (no such attribute yet), "open", "closed"
    arduino_conn,       \* self.arduino_conn: "none", "open", "closed"
    running,            \* self.running
    connectFails,       \* failed connect_to_device calls of the current connect loop
    mainStage,          \* MainWindow: "open", "waiting" (closeEvent in worker.wait), "closed"
    now,                \* time.time(), in ticks
    last_alert_time,    \* self.last_alert_time, in ticks
    alerts,             \* the alert_triggered emissions
    led,                \* the last command written to the Arduino ("": none yet)
    queries,            \* the queries written to worker.ser: who wrote, and in which stage of MainWindow
    \* the frame codec applied to one input
    codecOp,            \* the function applied ("": none yet)
    codecIn,            \* its arguments
    codecOut,           \* what it returned
    \* ex2_Test.py, the calibration thread and the transport it shares
    calPc,              \* where calibration_process is ("off": no thread started)
    calI,               \* the index i of its enumerate(self.scan_ranges)
    calLocal,           \* its (start, stop) of the current iteration
    calAmps,            \* its list `amplitudes`
    calLeft,            \* queries left in its `for _ in range(10)`
    exchanging,         \* the tasks inside get_spectrum_float on self.serial_conn
    calWrote,           \* the writes of scan_ranges[i] by the thread: entry before and after
    updateChains        \* the chains of root.after(500, self.update_spectrum) that were started

reasmVars == <<script, pending, fed, reads, buffer, emitted>>
ex2Vars == <<serial_conn, scan_ranges, alert_flags, ema_values, stability_counter,
             mainPc, bgI, lastFrame, alertLog, run, sinceLow, emaSteps>>
sessVars == <<wpc, ser, arduino_conn, running, connectFails, mainStage,
              now, last_alert_time, alerts, led>>
codecVars == <<codecOp, codecIn, codecOut>>
calVars == <<calPc, calI, calLocal, calAmps, calLeft, exchanging, calWrote, updateChains>>
extVars == <<codecVars, calVars, queries>>
vars == <<reasmVars, ex2Vars, sessVars, extVars>>

----------------------------------------------------------------------------
(* Bounds of the model *)

MaxStreamLen == 6
MaxNoise == 2
MaxAmp == 3
MaxEmaSteps == 6
MaxConnectFails == 2
MaxSessionReads == 2
MaxTime == 3
TicksPerSecond == 2
MaxFloats == 4
MaxRanges == 2
MaxCalQueries == 2
MaxCalPolls == 2
MaxCalRuns == 1

----------------------------------------------------------------------------
(* Wire format *)

Marker == 187
GET_SPECTRUM_FLOAT == 194

\* (None, None): the result of a parse that yields no samples
None == [ok |-> FALSE]

RECURSIVE fletcher_from(_, _, _, _)
fletcher_from(data, i, CK_A, CK_B) ==
    IF i > Len(data) THEN <<CK_A, CK_B>>
    ELSE LET a == (CK_A + data[i]) % 256
             b == (CK_B + a) % 256
         IN fletcher_from(data, i + 1, a, b)

\* A variant that adds each byte to CK_B instead of adding the running CK_A.
fletcher_checksum_ByteSumB(data) ==
    <<fletcher_from(data, 1, 0, 0)[1], fletcher_from(data, 1, 0, 0)[1]>>

fletcher_checksum(data) == fletcher_from(data, 1, 0, 0)

\* fletcher_checksum of ex2_Test.py: the same loop, written over the prefix
\* of data already consumed.
RECURSIVE Ex2_fletcher_checksum(_)
Ex2_fletcher_checksum(data) ==
    IF data = <<>> THEN <<0, 0>>
    ELSE LET ck == Ex2_fletcher_checksum(SubSeq(data, 1, Len(data) - 1))
             CK_A == (ck[1] + data[Len(data)]) % 256
             CK_B == (ck[2] + CK_A) % 256
         IN <<CK_A, CK_B>>

\* struct.unpack('<H', b) of the two bytes at 1-based positions i, i+1
U16LE(b, i) == b[i] + 256 * b[i + 1]

\* b[from:to] with Python's 0-based, end-exclusive, clamped bounds
Slice(b, from, to) ==
    LET hi == IF to > Len(b) THEN Len(b) ELSE to
    IN IF from >= hi THEN <<>> ELSE SubSeq(b, from + 1, hi)

\* struct.unpack('<nf', data): little-endian 32-bit floats, each kept as its
\* four bytes (the bit pattern decides the value)
UnpackFloats(data, n) == [i \in 1..n |-> SubSeq(data, 4 * i - 3, 4 * i)]

\* the frequencies left in Hz
ToMHz_Hz(f) == [hz |-> f, div |-> 1]

\* freqs / 1e6: the wire value in Hz, rescaled to MHz
ToMHz(f) == [hz |-> f, div |-> 1000000]

----------------------------------------------------------------------------
(* arduino_spectr.py: frame validation and decoding *)

\* parse_response without the comparison of the received and the computed checksum
parse_response_NoCrc(buf) ==
    IF Len(buf) < 6 THEN None
    ELSE IF buf[1] # Marker THEN None
    ELSE IF buf[2] # GET_SPECTRUM_FLOAT THEN None
    ELSE LET payload_len == U16LE(buf, 3) IN
      IF Len(buf) < 6 + payload_len THEN None
      ELSE LET data == Slice(buf, 4, 4 + payload_len)
               num_floats == Len(data) \div 4
           IN
        IF num_floats % 2 # 0 THEN None
        ELSE IF Len(data) # 4 * num_floats THEN None
        ELSE LET float_data == UnpackFloats(data, num_floats)
                 half == num_floats \div 2
             IN [ok    |-> TRUE,
                 mags  |-> SubSeq(float_data, 1, half),
                 freqs |-> [i \in 1..half |-> ToMHz(float_data[half + i])]]

\* parse_response(buffer): None, or the decoded (mags, freqs)
parse_response(buf) ==
    IF Len(buf) < 6 THEN None
    ELSE IF buf[1] # Marker THEN None
    ELSE IF buf[2] # GET_SPECTRUM_FLOAT THEN None
    ELSE LET payload_len == U16LE(buf, 3) IN
      IF Len(buf) < 6 + payload_len THEN None
      ELSE LET received_crc == U16LE(buf, 5 + payload_len)
               ck == fletcher_checksum(Slice(buf, 0, 4 + payload_len))
               calculated_crc == ck[2] * 256 + ck[1]
           IN
        IF received_crc # calculated_crc THEN None
        ELSE LET data == Slice(buf, 4, 4 + payload_len)
                 num_floats == Len(data) \div 4
             IN
          IF num_floats % 2 # 0 THEN None
          \* struct.unpack raises struct.error unless len(data) = 4*num_floats;
          \* the except clause turns it into (None, None)
          ELSE IF Len(data) # 4 * num_floats THEN None
          ELSE LET float_data == UnpackFloats(data, num_floats)
                   half == num_floats \div 2
               IN [ok    |-> TRUE,
                   mags  |-> SubSeq(float_data, 1, half),
                   freqs |-> [i \in 1..half |-> ToMHz(float_data[half + i])]]

----------------------------------------------------------------------------
(* arduino_spectr.py: the reassembly loop of SpectrumWorker.run *)

\* bytes.find(b'\xBB'): 1-based index of the first marker, 0 when there is none
RECURSIVE FindFrom(_, _)
FindFrom(b, i) ==
    IF i > Len(b) THEN 0
    ELSE IF b[i] = Marker THEN i
    ELSE FindFrom(b, i + 1)

\* a find that never looks past the first byte: nothing before a marker is trimmed
FindMarker_NoScan(b) == IF Len(b) = 0 THEN 0 ELSE 1

FindMarker(b) == FindFrom(b, 1)

\* What the loop does with a candidate packet it has cut off the buffer:
\* a packet parse_response accepts is emitted (data_updated), any other is dropped.
EmitPacket(out, packet) ==
    LET r == parse_response(packet)
    IN IF r.ok
       THEN Append(out, [packet |-> packet, mags |-> r.mags, freqs |-> r.freqs])
       ELSE out

\* The loop, with the buffer thrown away when fewer than 4 bytes follow the marker
RECURSIVE ReasmLoop_DropShort(_, _)
ReasmLoop_DropShort(buf, out) ==
    LET start_idx == FindMarker(buf) IN
    IF start_idx = 0 THEN [buffer |-> buf, frames |-> out]
    ELSE LET b == SubSeq(buf, start_idx, Len(buf)) IN
      IF Len(b) < 4 THEN [buffer |-> <<>>, frames |-> out]
      ELSE LET payload_len == U16LE(b, 3)
               packet_len == 6 + payload_len
           IN
        IF Len(b) < packet_len THEN [buffer |-> b, frames |-> out]
        ELSE ReasmLoop_DropShort(SubSeq(b, packet_len + 1, Len(b)),
                                 EmitPacket(out, SubSeq(b, 1, packet_len)))

\* The `while True` loop over self.buffer: the buffer left and the frames emitted
RECURSIVE ReasmLoop(_, _)
ReasmLoop(buf, out) ==
    LET start_idx == FindMarker(buf) IN
    IF start_idx = 0 THEN [buffer |-> buf, frames |-> out]
    ELSE LET b == SubSeq(buf, start_idx, Len(buf)) IN
      IF Len(b) < 4 THEN [buffer |-> b, frames |-> out]
      ELSE LET payload_len == U16LE(b, 3)
               packet_len == 6 + payload_len
           IN
        IF Len(b) < packet_len THEN [buffer |-> b, frames |-> out]
        ELSE ReasmLoop(SubSeq(b, packet_len + 1, Len(b)),
                       EmitPacket(out, SubSeq(b, 1, packet_len)))

\* One pass of the read branch: `if data:` extend the buffer and run the loop
Ingest(buf, data) ==
    IF data = <<>> THEN [buffer |-> buf, frames |-> <<>>]
    ELSE ReasmLoop(buf \o data, <<>>)

----------------------------------------------------------------------------
(* Inputs of the reassembler *)

\* A response frame as the device sends it: header, payload, (crcA, crcB)
Header(payload) == <<Marker, GET_SPECTRUM_FLOAT, Len(payload) % 256, Len(payload) \div 256>>

Frame(payload) ==
    LET body == Header(payload) \o payload
        ck == fletcher_checksum(body)
    IN body \o <<ck[1], ck[2]>>

\* A frame whose two trailing bytes are not its checksum
BadFrames(payload) ==
    LET body == Header(payload) \o payload
        ck == fletcher_checksum(body)
    IN { body \o <<ck[1], (ck[2] + 1) % 256>>,
         body \o <<(ck[1] + 1) % 256, ck[2]>>,
         body \o <<Marker, GET_SPECTRUM_FLOAT>> }

\* IEEE-754 single precision, little-endian
F32_0 == <<0, 0, 0, 0>>
F32_1 == <<0, 0, 128, 63>>
F32_2 == <<0, 0, 0, 64>>
F32_Marker == <<Marker, 0, 0, 0>>

\* Payloads with an even number of floats: amplitudes first, then frequencies
EvenPayloads == { <<>>, F32_2 \o F32_1, F32_0 \o F32_Marker, F32_Marker \o F32_2 }

ValidFrames == { Frame(p) : p \in EvenPayloads }
CorruptFrames == UNION { BadFrames(p) : p \in EvenPayloads \cup {F32_1} }

NoiseBytes == {170, 0}
NoisePrefixes == UNION { [1..k -> NoiseBytes] : k \in 0..MaxNoise }

RECURSIVE Repeat(_, _)
Repeat(s, n) == IF n = 0 THEN <<>> ELSE s \o Repeat(s, n - 1)

NoiseThenFrame == { n \o f : n \in NoisePrefixes, f \in ValidFrames }
CorruptThenValid == { c \o v : c \in CorruptFrames, v \in ValidFrames }
\* a stray marker, or a stray empty header, in front of valid frames
StrayThenFrames ==
    { <<Marker>> \o Repeat(Frame(<<>>), k) : k \in 1..2 }
    \cup { Header(<<>>) \o Frame(<<>>) }

Scripts == NoiseThenFrame \cup CorruptThenValid \cup StrayThenFrames

\* Free input: the bytes of the empty valid frame (0 doubles as noise)
Alphabet == {Marker, GET_SPECTRUM_FLOAT, 0, 125, 50}
Chunks(n) == UNION { [1..k -> Alphabet] : k \in 1..n }

----------------------------------------------------------------------------
(* ex2_Test.py: the blocking query/response exchange *)

\* struct.unpack raised (struct.error is not a SerialException: it propagates)
Raised == [ok |-> FALSE, raised |-> TRUE]
Ex2None == [ok |-> FALSE, raised |-> FALSE]

\* parse_response(serial_conn), rx being the bytes the reads return before
\* their timeouts: read(4), read(payload_len), read(2)
Ex2_parse_response(rx) ==
    LET header == Slice(rx, 0, 4) IN
    IF Len(header) < 4 THEN Ex2None
    ELSE LET payload_len == U16LE(header, 3)
             response_data == Slice(rx, 4, 4 + payload_len)
         IN
      IF Len(response_data) < payload_len THEN Ex2None
      ELSE LET received_crc == Slice(rx, 4 + payload_len, 6 + payload_len)
               ck == fletcher_checksum(header \o response_data)
           IN
        IF received_crc # <<ck[1], ck[2]>> THEN Ex2None
        ELSE IF payload_len % 4 # 0 THEN Raised
        ELSE LET n == payload_len \div 4
                 float_data == UnpackFloats(response_data, n)
                 half == n \div 2
             IN [ok |-> TRUE, raised |-> FALSE,
                 mags  |-> SubSeq(float_data, 1, half),
                 freqs |-> [i \in 1..(n - half) |-> ToMHz(float_data[half + i])]]

\* get_spectrum_float: write the query, parse the response; a SerialException
\* of the write or of a read gives (None, None)
get_spectrum_float(rx, serial_error) ==
    IF serial_error THEN Ex2None ELSE Ex2_parse_response(rx)

----------------------------------------------------------------------------
(* Amplitudes: IEEE-754 single precision values, little-endian *)

F32Table ==
    { <<F32_0, 0>>, <<F32_1, 1>>, <<F32_2, 2>>, << <<0, 0, 64, 64>>, 3>>,
      << <<0, 0, 128, 64>>, 4>>, << <<0, 0, 160, 64>>, 5>>,
      << <<0, 0, 180, 194>>, -90>>, << <<0, 0, 200, 194>> , -100>> }

\* the float with value v, as its four bytes
F32Bits(v) == (CHOOSE p \in F32Table : p[2] = v)[1]

\* the value of a float given as its four bytes
F32Value(bits) == (CHOOSE p \in F32Table : p[1] = bits)[2]

RECURSIVE Flatten(_)
Flatten(ss) == IF ss = <<>> THEN <<>> ELSE Head(ss) \o Flatten(Tail(ss))

\* the payload of a spectrum: the amplitudes, then as many frequencies
SpectrumPayload(amps) ==
    Flatten([i \in 1..Len(amps) |-> F32Bits(amps[i])])
    \o Flatten([i \in 1..Len(amps) |-> F32Bits(i)])

\* Spectra over a floor of 0: a flat one, single peaks, a spike the median
\* filter removes
Spectra == { <<0, a, b>> : a \in {0, MaxAmp}, b \in 0..MaxAmp }

\* a frame with a valid checksum under an arbitrary marker and command byte
FrameWith(marker, cmd, payload) ==
    LET body == <<marker, cmd, Len(payload) % 256, Len(payload) \div 256>> \o payload
        ck == fletcher_checksum(body)
    IN body \o <<ck[1], ck[2]>>

\* What the device may answer to one query: a spectrum; nothing or a
\* truncated frame (timeout); a wrong checksum; a valid checksum under a wrong
\* marker or a wrong command; a payload that is not a whole number of floats
GoodResponses == { Frame(SpectrumPayload(a)) : a \in Spectra }
BadResponses ==
    { <<>>, <<Marker, GET_SPECTRUM_FLOAT>> }
    \cup BadFrames(SpectrumPayload(<<0, 1, 2>>))
    \cup { FrameWith(170, GET_SPECTRUM_FLOAT, SpectrumPayload(<<0, 0, 2>>)),
           FrameWith(Marker, 195, SpectrumPayload(<<0, 0, 1>>)),
           Frame(<<1, 2>>) }
Ex2Responses == GoodResponses \cup BadResponses

----------------------------------------------------------------------------
(* ex2_Test.py: the detection pipeline *)

Med3(a, b, c) ==
    IF (a <= b /\ b <= c) \/ (c <= b /\ b <= a) THEN b
    ELSE IF (b <= a /\ a <= c) \/ (c <= a /\ a <= b) THEN a
    ELSE c

\* scipy.ndimage.median_filter(mags, size=3), mode 'reflect': the edge value
\* is repeated beyond each end
median_filter(m) ==
    LET n == Len(m)
        at(i) == IF i < 1 THEN m[1] ELSE IF i > n THEN m[n] ELSE m[i]
    IN [i \in 1..n |-> Med3(at(i - 1), at(i), at(i + 1))]

\* ignore_known_values: drops the (mag, freq) pairs in self.ignored_ranges,
\* which no handler ever fills
ignore_known_values(m) == SelectSeq(m, LAMBDA x : TRUE)

RECURSIVE Insert(_, _)
Insert(x, sorted) ==
    IF sorted = <<>> THEN <<x>>
    ELSE IF x <= Head(sorted) THEN <<x>> \o sorted
    ELSE <<Head(sorted)>> \o Insert(x, Tail(sorted))

RECURSIVE Sort(_)
Sort(m) == IF m = <<>> THEN <<>> ELSE Insert(Head(m), Sort(Tail(m)))

\* twice np.median(m), for a non-empty m
Median2(m) ==
    LET s == Sort(m)
        n == Len(m)
    IN IF n % 2 = 1 THEN 2 * s[(n + 1) \div 2] ELSE s[n \div 2] + s[n \div 2 + 1]

\* process_spectrum: the samples above the median
process_spectrum(m) ==
    LET med2 == Median2(m) IN SelectSeq(m, LAMBDA x : 2 * x > med2)

RECURSIVE SeqMax(_)
SeqMax(m) ==
    IF Len(m) = 1 THEN m[1]
    ELSE LET r == SeqMax(Tail(m)) IN IF Head(m) > r THEN Head(m) ELSE r

\* filtered_mags.max() of a decoded response: the working amplitude, or the
\* ValueError of max() of an empty array
WorkingAmp(mags) ==
    LET values == [i \in 1..Len(mags) |-> F32Value(mags[i])]
        filtered == process_spectrum(ignore_known_values(median_filter(values)))
    IN IF mags = <<>> \/ filtered = <<>> THEN [raised |-> TRUE, amp |-> 0]
       ELSE [raised |-> FALSE, amp |-> SeqMax(filtered)]

\* One query as update_spectrum and background_processing use it: what
\* get_spectrum_float returns for the response rx and what
\* filtered_mags.max() makes of it.
\*   "none":  (None, None), the caller skips the range
\*   "raise": an exception leaves the callback (struct.error, or max() of nothing)
\*   "amp":   the working amplitude amp
\* frame: the bytes parse_response accepted as a frame (<<>>: none)
QueryOutcome(rx, serial_error) ==
    LET r == get_spectrum_float(rx, serial_error) IN
    IF r.raised THEN [kind |-> "raise", amp |-> 0, frame |-> <<>>]
    ELSE IF ~r.ok THEN [kind |-> "none", amp |-> 0, frame |-> <<>>]
    ELSE LET w == WorkingAmp(r.mags) IN
         IF w.raised THEN [kind |-> "raise", amp |-> 0, frame |-> rx]
         ELSE [kind |-> "amp", amp |-> w.amp, frame |-> rx]

QueryOutcomes == { QueryOutcome(rx, e) : rx \in Ex2Responses, e \in BOOLEAN }

stability_duration == 3

\* update_ema with ema_alpha = 0.1, in exact arithmetic: e = num/den
update_ema(ema, value) ==
    IF ema = <<>> THEN [num |-> value, den |-> 1]
    ELSE [num |-> value * ema[1].den + 9 * ema[1].num, den |-> 10 * ema[1].den]

\* value > threshold_high, with threshold_high = ema + 1
AboveHigh(value, e) == value * e.den > e.num + e.den

\* A variant without the hysteresis: threshold_low = ema
AtOrBelowLow_NoHysteresis(value, e) == value * e.den <= e.num

\* value <= threshold_low, with threshold_low = threshold_high - 0.5
AtOrBelowLow(value, e) == 2 * value * e.den <= 2 * e.num + e.den

----------------------------------------------------------------------------
(* arduino_spectr.py: SpectrumWorker *)

worker_threshold == -97
min_alert_interval == 1

\* time.time() of a process started long after the epoch
StartTime == min_alert_interval * TicksPerSecond + 1

\* MainWindow.__init__ has run: the worker thread is started and is about to
\* call connect_to_device for the first time
InitSessVars ==
    /\ wpc = "connect"
    /\ ser = "unset"
    /\ arduino_conn = "none"
    /\ running = FALSE
    /\ connectFails = 0
    /\ mainStage = "open"
    /\ now = StartTime
    /\ last_alert_time = 0
    /\ alerts = <<>>
    /\ led = ""

\* What one call does to find and open the port
ConnectOutcomes == {"no_ports", "serial_error", "opened"}

\* connect_to_device with SerialException left uncaught
connect_to_device_NoCatch(outcome) ==
    IF outcome = "no_ports" THEN "False"
    ELSE IF outcome = "serial_error" THEN "raise"
    ELSE "True"

\* connect_to_device: "True", "False", or "raise" when an exception leaves it
connect_to_device(outcome) ==
    IF outcome = "no_ports" THEN "False"
    ELSE IF outcome = "serial_error" THEN "False"
    ELSE "True"

\* the loop with last_alert_time left as it is when an alert is emitted
RECURSIVE PeakLoop_NoStamp(_, _, _, _, _)
PeakLoop_NoStamp(mags, freqs, k, t, acc) ==
    IF k > Len(mags) \/ k > Len(freqs) THEN acc
    ELSE IF F32Value(mags[k]) > worker_threshold
    THEN IF (t - acc.last) > min_alert_interval * TicksPerSecond
         THEN PeakLoop_NoStamp(mags, freqs, k + 1, t,
                       [has_peak |-> TRUE, last |-> acc.last,
                        out |-> Append(acc.out, [amp |-> mags[k], freq |-> freqs[k], time |-> t])])
         ELSE PeakLoop_NoStamp(mags, freqs, k + 1, t, [acc EXCEPT !.has_peak = TRUE])
    ELSE PeakLoop_NoStamp(mags, freqs, k + 1, t, acc)

\* the `for amp, freq in zip(mags, freqs)` loop at time t: the alerts emitted
\* and the last_alert_time left
RECURSIVE PeakLoop(_, _, _, _, _)
PeakLoop(mags, freqs, k, t, acc) ==
    IF k > Len(mags) \/ k > Len(freqs) THEN acc
    ELSE IF F32Value(mags[k]) > worker_threshold
    THEN IF (t - acc.last) > min_alert_interval * TicksPerSecond
         THEN PeakLoop(mags, freqs, k + 1, t,
                       [has_peak |-> TRUE, last |-> t,
                        out |-> Append(acc.out, [amp |-> mags[k], freq |-> freqs[k], time |-> t])])
         ELSE PeakLoop(mags, freqs, k + 1, t, [acc EXCEPT !.has_peak = TRUE])
    ELSE PeakLoop(mags, freqs, k + 1, t, acc)

\* The frames of one read, in order: alerts, the LED command of each frame
\* (written only while the Arduino port is open), data_updated
RECURSIVE HandleFrames(_, _, _)
HandleFrames(frames, k, acc) ==
    IF k > Len(frames) THEN acc
    ELSE LET r == PeakLoop(frames[k].mags, frames[k].freqs, 1, now,
                           [has_peak |-> FALSE, last |-> acc.last, out |-> <<>>])
         IN HandleFrames(frames, k + 1,
                [last |-> r.last,
                 out |-> acc.out \o r.out,
                 led |-> IF arduino_conn = "open"
                         THEN (IF r.has_peak THEN "1" ELSE "0")
                         ELSE acc.led])

\* finally: both ports closed, running cleared
RunFinally ==
    /\ ser' = IF ser = "unset" THEN ser ELSE "closed"
    /\ arduino_conn' = IF arduino_conn = "none" THEN arduino_conn ELSE "closed"
    /\ running' = FALSE
    /\ wpc' = "return"

\* `while not self.connect_to_device(): time.sleep(5)` before the try block
ConnectFirst ==
    /\ wpc = "connect"
    /\ \E outcome \in ConnectOutcomes :
        LET res == connect_to_device(outcome) IN
        IF res = "True"
        THEN /\ ser' = "open"
             /\ wpc' = "arduino"
             /\ UNCHANGED connectFails
        ELSE IF res = "False"
        THEN /\ connectFails' = IF connectFails < MaxConnectFails
                                THEN connectFails + 1 ELSE connectFails
             /\ UNCHANGED <<ser, wpc>>
        ELSE \* the exception leaves run(): the thread ends
             /\ wpc' = "done"
             /\ UNCHANGED <<ser, connectFails>>
    /\ UNCHANGED <<arduino_conn, running, mainStage, now, last_alert_time, alerts, led>>
    /\ UNCHANGED <<reasmVars, ex2Vars, extVars>>

\* connect_arduino (its failure is only reported), then self.running = True
ConnectArduino ==
    /\ wpc = "arduino"
    /\ \E opened \in BOOLEAN :
        arduino_conn' = IF opened THEN "open" ELSE "none"
    /\ running' = TRUE
    /\ wpc' = "loop"
    /\ UNCHANGED <<ser, connectFails, mainStage, now, last_alert_time, alerts, led>>
    /\ UNCHANGED <<reasmVars, ex2Vars, extVars>>

\* `while self.running:` and the test of the port
LoopTest ==
    /\ wpc = "loop"
    /\ IF ~running THEN wpc' = "finally"
       ELSE IF ser # "open" THEN wpc' = "reconnect"
       ELSE wpc' = "read"
    /\ connectFails' = IF running /\ ser # "open" THEN 0 ELSE connectFails
    /\ UNCHANGED <<ser, arduino_conn, running, mainStage, now, last_alert_time, alerts, led>>
    /\ UNCHANGED <<reasmVars, ex2Vars, extVars>>

\* the connect loop inside the try block
Reconnect ==
    /\ wpc = "reconnect"
    /\ \E outcome \in ConnectOutcomes :
        LET res == connect_to_device(outcome) IN
        IF res = "True"
        THEN /\ ser' = "open"
             /\ wpc' = "query"
             /\ UNCHANGED <<connectFails, buffer>>
        ELSE IF res = "False"
        THEN /\ connectFails' = IF connectFails < MaxConnectFails
                                THEN connectFails + 1 ELSE connectFails
             /\ UNCHANGED <<ser, wpc, buffer>>
        ELSE \* except Exception: the buffer is cleared, then finally
             /\ buffer' = <<>>
             /\ wpc' = "finally"
             /\ UNCHANGED <<ser, connectFails>>
    /\ UNCHANGED <<arduino_conn, running, mainStage, now, last_alert_time, alerts, led>>
    /\ UNCHANGED <<script, pending, fed, reads, emitted, ex2Vars, extVars>>

\* get_spectrum(self.ser) after a reconnect: the write succeeds or raises
QueryAfterReconnect ==
    /\ wpc = "query"
    /\ \E write_ok \in BOOLEAN :
        IF write_ok /\ ser = "open"
        THEN /\ wpc' = "read"
             /\ queries' = queries \cup {[by |-> "worker", stage |-> mainStage]}
             /\ UNCHANGED buffer
        ELSE /\ buffer' = <<>>
             /\ wpc' = "finally"
             /\ UNCHANGED queries
    /\ UNCHANGED <<ser, arduino_conn, running, connectFails, mainStage, now,
                   last_alert_time, alerts, led>>
    /\ UNCHANGED <<script, pending, fed, reads, emitted, ex2Vars, codecVars, calVars>>

\* What the device may deliver to one read
QuietFrame == Frame(F32Bits(-100) \o F32_1)
LoudFrame == Frame(F32Bits(-90) \o F32Bits(-90) \o F32_1 \o F32_2)
SessionChunks ==
    { <<>>, <<0>>, QuietFrame, LoudFrame,
      SubSeq(LoudFrame, 1, 5), SubSeq(LoudFrame, 6, Len(LoudFrame)) }
    \cup BadFrames(F32Bits(-90) \o F32_1)

\* data = self.ser.read(1024) returns: reassembly, and detection per frame
ReadReturns ==
    /\ wpc = "read"
    /\ ser = "open"
    /\ reads < MaxSessionReads
    /\ \E data \in SessionChunks :
        LET r == Ingest(buffer, data)
            h == HandleFrames(r.frames, 1,
                              [last |-> last_alert_time, out |-> <<>>, led |-> led])
        IN
        /\ buffer' = r.buffer
        /\ emitted' = emitted \o r.frames
        /\ reads' = reads + 1
        /\ last_alert_time' = h.last
        /\ alerts' = alerts \o h.out
        /\ led' = h.led
    /\ wpc' = "loop"
    /\ UNCHANGED <<ser, arduino_conn, running, connectFails, mainStage, now>>
    /\ UNCHANGED <<script, pending, fed, ex2Vars, extVars>>

\* self.ser.read raises (I/O error, device unplugged, port closed under the
\* reader): except Exception clears the buffer, then finally
ReadRaises ==
    /\ wpc = "read"
    /\ buffer' = <<>>
    /\ wpc' = "finally"
    /\ UNCHANGED <<ser, arduino_conn, running, connectFails, mainStage, now,
                   last_alert_time, alerts, led>>
    /\ UNCHANGED <<script, pending, fed, reads, emitted, ex2Vars, extVars>>

\* the finally block of run
WorkerFinally ==
    /\ wpc = "finally"
    /\ RunFinally
    /\ UNCHANGED <<connectFails, mainStage, now, last_alert_time, alerts, led>>
    /\ UNCHANGED <<reasmVars, ex2Vars, extVars>>

\* run() returns after its finally block: the thread has finished
WorkerReturn ==
    /\ wpc = "return"
    /\ wpc' = "done"
    /\ UNCHANGED <<ser, arduino_conn, running, connectFails, mainStage, now,
                   last_alert_time, alerts, led>>
    /\ UNCHANGED <<reasmVars, ex2Vars, extVars>>

\* QThread.isRunning()
isRunning == wpc # "done"

\* What worker.ser is for a caller: missing until the first connect
\* succeeded, then a port that is open or not
TransportPhase ==
    IF ser = "unset" THEN "searching"
    ELSE IF ser = "open" THEN "open"
    ELSE IF wpc = "reconnect" THEN "reconnecting"
    ELSE "closed"

\* closeEvent up to worker.wait(2000): the stop flag is cleared if the thread runs
CloseEventBegin ==
    /\ mainStage = "open"
    /\ running' = IF isRunning THEN FALSE ELSE running
    /\ mainStage' = "waiting"
    /\ UNCHANGED <<wpc, ser, arduino_conn, connectFails, now, last_alert_time, alerts, led>>
    /\ UNCHANGED <<reasmVars, ex2Vars, extVars>>

\* wait returned (the thread ended, or 2 s passed): both ports are closed; the
\* missing attribute worker.ser is an exception the handler catches
CloseEventEnd ==
    /\ mainStage = "waiting"
    /\ arduino_conn' = IF arduino_conn = "none" THEN arduino_conn ELSE "closed"
    /\ ser' = IF ser = "unset" THEN ser ELSE "closed"
    /\ mainStage' = "closed"
    /\ UNCHANGED <<wpc, running, connectFails, now, last_alert_time, alerts, led>>
    /\ UNCHANGED <<reasmVars, ex2Vars, extVars>>

\* A variant of request_spectrum in which the write goes out whatever
\* worker.ser is
RequestSpectrum_Unchecked ==
    /\ mainStage = "open"
    /\ isRunning
    /\ queries' = queries \cup {[by |-> "timer", stage |-> mainStage, port |-> TransportPhase]}
    /\ UNCHANGED sessVars
    /\ UNCHANGED <<reasmVars, ex2Vars, codecVars, calVars>>

\* The 1 s timer of MainWindow: request_spectrum writes a query to worker.ser
\* while the thread runs.  The event loop runs no timer during closeEvent nor
\* after the window is closed; a missing worker.ser (AttributeError) or a
\* closed one (serial.PortNotOpenError from write) raises in the slot and
\* nothing is written.
RequestSpectrum ==
    /\ mainStage = "open"
    /\ isRunning
    /\ queries' = IF ser = "open"
                  THEN queries \cup {[by |-> "timer", stage |-> mainStage,
                                      port |-> TransportPhase]}
                  ELSE queries
    /\ UNCHANGED sessVars
    /\ UNCHANGED <<reasmVars, ex2Vars, codecVars, calVars>>

\* time passes
Tick ==
    /\ now < StartTime + MaxTime
    /\ now' = now + 1
    /\ UNCHANGED <<wpc, ser, arduino_conn, running, connectFails, mainStage,
                   last_alert_time, alerts, led>>
    /\ UNCHANGED <<reasmVars, ex2Vars, extVars>>


----------------------------------------------------------------------------
(* The query command of both variants *)

\* An unsigned 64-bit integer as four 16-bit limbs, least significant first
\* (its value is l[1] + 65536*l[2] + 65536^2*l[3] + 65536^3*l[4])
U64(l0, l1, l2, l3) == <<l0, l1, l2, l3>>

\* the eight bytes of v, most significant first (a pack with '>Q')
PackQ_BigEndian(v) ==
    [k \in 1..8 |-> LET j == 8 - k
                    IN IF j % 2 = 0 THEN v[j \div 2 + 1] % 256
                                    ELSE v[j \div 2 + 1] \div 256]

\* struct.pack('<Q', v): the eight bytes of v, least significant first
PackQ(v) ==
    [k \in 1..8 |-> LET j == k - 1
                    IN IF j % 2 = 0 THEN v[j \div 2 + 1] % 256
                                    ELSE v[j \div 2 + 1] \div 256]

\* struct.pack('<H', n)
PackH(n) == <<n % 256, n \div 256>>

\* struct.pack('<BBHQQBBB', 0xBB, GET_SPECTRUM_FLOAT, 19, start, stop, rfin, bw, speed)
PackCommand(start, stop, rfin, bw, speed) ==
    <<Marker, GET_SPECTRUM_FLOAT>> \o PackH(19) \o PackQ(start) \o PackQ(stop)
    \o <<rfin, bw, speed>>

\* the command with its two checksum bytes in the wrong order
WithChecksum_Swapped(command) ==
    LET ck == fletcher_checksum(command) IN command \o <<ck[2], ck[1]>>

\* command += struct.pack('<BB', crc1, crc2)
WithChecksum(command) ==
    LET ck == fletcher_checksum(command) IN command \o <<ck[1], ck[2]>>

\* the bytes get_spectrum (arduino_spectr.py) writes to the port
get_spectrum(start_freq, stop_freq) ==
    WithChecksum(PackCommand(start_freq, stop_freq, 2, 3, 0))

\* the bytes get_spectrum_float (ex2_Test.py) writes to the port
get_spectrum_float_command(start_freq, stop_freq, rfin, bw, speed) ==
    WithChecksum(PackCommand(start_freq, stop_freq, rfin, bw, speed))

\* The checksum test of parse_response (arduino_spectr.py) alone: the two
\* trailing bytes as a little-endian u16 against (crc2 << 8) | crc1
CrcAcceptsU16(buf) ==
    LET payload_len == U16LE(buf, 3)
        received_crc == U16LE(buf, 5 + payload_len)
        ck == fletcher_checksum(Slice(buf, 0, 4 + payload_len))
        calculated_crc == ck[2] * 256 + ck[1]
    IN received_crc = calculated_crc

\* The checksum test of parse_response (ex2_Test.py) alone: the two trailing
\* bytes against bytes([crc1, crc2])
CrcAcceptsBytes(rx) ==
    LET header == Slice(rx, 0, 4)
        payload_len == U16LE(header, 3)
        response_data == Slice(rx, 4, 4 + payload_len)
        received_crc == Slice(rx, 4 + payload_len, 6 + payload_len)
        ck == fletcher_checksum(header \o response_data)
    IN received_crc = <<ck[1], ck[2]>>

\* Frequencies: the defaults of get_spectrum (800e6, 4800e6), the range and
\* the display window of ex2_Test.py (400e6, 500e6, 200e6, 1300e6), and the
\* ends of the u64 range
Hz800M == U64(2048, 12207, 0, 0)
Hz4800M == U64(12288, 7706, 1, 0)
Freqs ==
    { U64(0, 0, 0, 0), U64(65535, 65535, 65535, 65535),
      Hz800M, Hz4800M,
      U64(33792, 6103, 0, 0), U64(25856, 7629, 0, 0),
      U64(49664, 3051, 0, 0), U64(27904, 19836, 0, 0) }

\* rfin, bw, speed: the defaults, the ends of the u8 range, the marker
U8s == {0, 2, 3, 255, Marker}

\* Payloads of up to MaxFloats floats, and payloads that are not a whole
\* number of floats
FloatBits == { F32_0, F32_1, F32_Marker, <<0, 0, 180, 194>> }
FloatPayloads == UNION { { Flatten(fs) : fs \in [1..n -> FloatBits] } : n \in 0..MaxFloats }
RaggedPayloads == { p \o <<1>> : p \in { q \in FloatPayloads : Len(q) <= 8 } }
CodecPayloads == FloatPayloads \cup RaggedPayloads

InitExtVars ==
    /\ queries = {}
    /\ codecOp = ""
    /\ codecIn = <<>>
    /\ codecOut = <<>>
    /\ calPc = "off"
    /\ calI = 0
    /\ calLocal = <<>>
    /\ calAmps = <<>>
    /\ calLeft = 0
    /\ exchanging = {}
    /\ calWrote = <<>>
    /\ updateChains = 1

----------------------------------------------------------------------------
(* Specification of the Tk application's polling cycle *)

Range0 == [start |-> 400000000, stop |-> 500000000]

\* The state __init__ leaves: one range, its threshold calibrated if the
\* device answered (median of the maxima + 1) and None (<<>>) otherwise
InitEx2Vars ==
    /\ serial_conn \in BOOLEAN
    /\ \E thr \in {<<>>, <<10 * (MaxAmp + 1)>>} :
        /\ (~serial_conn => thr = <<>>)
        /\ scan_ranges = << [start |-> Range0.start, stop |-> Range0.stop, threshold |-> thr] >>
    /\ alert_flags = <<FALSE>>
    /\ ema_values = << <<>> >>
    /\ stability_counter = <<0>>
    /\ mainPc = "idle"
    /\ bgI = 1
    /\ lastFrame = <<>>
    /\ alertLog = <<>>
    /\ run = <<0>>
    /\ sinceLow = <<0>>
    /\ emaSteps = 0

InitReasmVars ==
    /\ script = <<>>
    /\ pending = <<>>
    /\ fed = <<>>
    /\ reads = 0
    /\ buffer = <<>>
    /\ emitted = <<>>

\* update_spectrum without a connection: only root.after(500, ...)
UpdateSpectrumNoConn ==
    /\ mainPc = "idle"
    /\ ~serial_conn
    /\ UNCHANGED vars

\* update_spectrum up to the call of background_processing: the display query
\* and the EMA update at index 0
UpdateSpectrumDisplay ==
    /\ mainPc = "idle"
    /\ serial_conn
    /\ emaSteps + 1 + Len(scan_ranges) <= MaxEmaSteps
    /\ \E o \in QueryOutcomes :
        /\ lastFrame' = IF scan_ranges = <<>> THEN <<>> ELSE o.frame
        /\ IF scan_ranges = <<>> \/ o.kind = "none"
           THEN /\ mainPc' = "bg"
                /\ UNCHANGED <<ema_values, emaSteps>>
           ELSE IF o.kind = "raise"
           THEN /\ mainPc' = "dead"
                /\ UNCHANGED <<ema_values, emaSteps>>
           ELSE /\ mainPc' = "bg"
                /\ ema_values' = [ema_values EXCEPT ![1] = <<update_ema(ema_values[1], o.amp)>>]
                /\ emaSteps' = emaSteps + 1
    /\ bgI' = 1
    /\ UNCHANGED <<serial_conn, scan_ranges, alert_flags, stability_counter,
                   alertLog, run, sinceLow>>
    /\ UNCHANGED <<reasmVars, sessVars, extVars>>

\* The detection without the test of alert_flags[i]['high']
Detect_NoFlagTest(i, w) ==
    LET e == update_ema(ema_values[i], w)
        above == AboveHigh(w, e)
        low == AtOrBelowLow(w, e)
        counter == IF above THEN stability_counter[i] + 1
                   ELSE IF low THEN 0 ELSE stability_counter[i]
        alert == above /\ counter >= stability_duration
        run1 == IF above THEN run[i] + 1 ELSE 0
    IN
    /\ ema_values' = [ema_values EXCEPT ![i] = <<e>>]
    /\ emaSteps' = emaSteps + 1
    /\ stability_counter' = [stability_counter EXCEPT ![i] = counter]
    /\ alert_flags' = [alert_flags EXCEPT ![i] =
                          IF alert THEN TRUE
                          ELSE IF ~above /\ low THEN FALSE ELSE @]
    /\ alertLog' = IF alert THEN Append(alertLog, [range |-> i, run |-> run1]) ELSE alertLog
    /\ run' = [run EXCEPT ![i] = run1]
    /\ sinceLow' = [sinceLow EXCEPT ![i] =
                       IF alert THEN @ + 1
                       ELSE IF ~above /\ low THEN 0 ELSE @]

\* The detection of background_processing for range i, working amplitude w
Detect(i, w) ==
    LET e == update_ema(ema_values[i], w)
        above == AboveHigh(w, e)
        low == AtOrBelowLow(w, e)
        counter == IF above THEN stability_counter[i] + 1
                   ELSE IF low THEN 0 ELSE stability_counter[i]
        alert == above /\ counter >= stability_duration /\ ~alert_flags[i]
        run1 == IF above THEN run[i] + 1 ELSE 0   \* a cycle without samples leaves the run as it is
    IN
    /\ ema_values' = [ema_values EXCEPT ![i] = <<e>>]
    /\ emaSteps' = emaSteps + 1
    /\ stability_counter' = [stability_counter EXCEPT ![i] = counter]
    /\ alert_flags' = [alert_flags EXCEPT ![i] =
                          IF alert THEN TRUE
                          ELSE IF ~above /\ low THEN FALSE ELSE @]
    /\ alertLog' = IF alert THEN Append(alertLog, [range |-> i, run |-> run1]) ELSE alertLog
    /\ run' = [run EXCEPT ![i] = run1]
    /\ sinceLow' = [sinceLow EXCEPT ![i] =
                       IF alert THEN @ + 1
                       ELSE IF ~above /\ low THEN 0 ELSE @]

\* one iteration of the loop of background_processing
BackgroundStep ==
    /\ mainPc = "bg"
    /\ bgI <= Len(scan_ranges)
    /\ \E o \in QueryOutcomes :
        /\ lastFrame' = o.frame
        /\ IF o.kind = "none"
           THEN /\ bgI' = bgI + 1
                /\ UNCHANGED <<mainPc, ema_values, emaSteps, stability_counter,
                               alert_flags, alertLog, run, sinceLow>>
           ELSE IF o.kind = "raise"
           THEN /\ mainPc' = "dead"
                /\ UNCHANGED <<bgI, ema_values, emaSteps, stability_counter,
                               alert_flags, alertLog, run, sinceLow>>
           ELSE /\ Detect(bgI, o.amp)
                /\ bgI' = bgI + 1
                /\ UNCHANGED mainPc
    /\ UNCHANGED <<serial_conn, scan_ranges>>
    /\ UNCHANGED <<reasmVars, sessVars, extVars>>

\* background_processing returned: root.after(500, self.update_spectrum)
UpdateSpectrumEnd ==
    /\ mainPc = "bg"
    /\ bgI > Len(scan_ranges)
    /\ mainPc' = "idle"
    /\ lastFrame' = <<>>
    /\ UNCHANGED <<serial_conn, scan_ranges, alert_flags, ema_values, stability_counter,
                   bgI, alertLog, run, sinceLow, emaSteps>>
    /\ UNCHANGED <<reasmVars, sessVars, extVars>>

InitEx2 == InitEx2Vars /\ InitReasmVars /\ InitSessVars /\ InitExtVars

NextEx2 ==
    \/ UpdateSpectrumNoConn
    \/ UpdateSpectrumDisplay
    \/ BackgroundStep
    \/ UpdateSpectrumEnd

SpecEx2 == InitEx2 /\ [][NextEx2]_vars

----------------------------------------------------------------------------
(* Specification of the Qt application's device session *)

InitSession ==
    InitSessVars /\ InitReasmVars /\ InitEx2Vars /\ serial_conn = FALSE /\ InitExtVars

NextSession ==
    \/ ConnectFirst
    \/ ConnectArduino
    \/ LoopTest
    \/ Reconnect
    \/ QueryAfterReconnect
    \/ ReadReturns
    \/ ReadRaises
    \/ WorkerFinally
    \/ WorkerReturn
    \/ CloseEventBegin
    \/ CloseEventEnd
    \/ RequestSpectrum
    \/ Tick

SpecSession == InitSession /\ [][NextSession]_vars

----------------------------------------------------------------------------
(* Specification of the reassembler: bytes arrive in arbitrary chunks *)

InitReasm ==
    /\ script \in Scripts \cup {<<>>}
    /\ pending = script
    /\ fed = <<>>
    /\ reads = 0
    /\ buffer = <<>>
    /\ emitted = <<>>
    /\ InitEx2Vars
    /\ serial_conn = FALSE
    /\ InitSessVars
    /\ InitExtVars

\* data = self.ser.read(1024) returned `data`; lines 201-219 and 237
ReadData(data) ==
    LET r == Ingest(buffer, data) IN
    /\ fed' = fed \o data
    /\ reads' = reads + 1
    /\ buffer' = r.buffer
    /\ emitted' = emitted \o r.frames

\* the device sends arbitrary bytes
ReadFree ==
    /\ script = <<>>
    /\ \E data \in Chunks(MaxStreamLen - Len(fed)) : ReadData(data)
    /\ UNCHANGED <<script, pending>>
    /\ UNCHANGED <<ex2Vars, sessVars, extVars>>

\* the device sends the script; the read returns its next n bytes
ReadScript ==
    /\ pending # <<>>
    /\ \E n \in 1..Len(pending) :
        /\ ReadData(SubSeq(pending, 1, n))
        /\ pending' = SubSeq(pending, n + 1, Len(pending))
    /\ UNCHANGED script
    /\ UNCHANGED <<ex2Vars, sessVars, extVars>>

NextReasm == ReadFree \/ ReadScript

SpecReasm == InitReasm /\ [][NextReasm]_vars

----------------------------------------------------------------------------
(* Specification of the frame codec: the functions are pure, a behaviour      *)
(* applies one of them to one input                                         *)

\* parse_response (arduino_spectr.py) on a frame the device built around a payload
ParseResponse ==
    /\ codecOp = ""
    /\ \E payload \in CodecPayloads :
        /\ codecIn' = payload
        /\ codecOut' = parse_response(Frame(payload))
    /\ codecOp' = "parse_response"
    /\ UNCHANGED <<queries, calVars>>
    /\ UNCHANGED <<reasmVars, ex2Vars, sessVars>>

\* parse_response (ex2_Test.py) on the same frames
Ex2ParseResponse ==
    /\ codecOp = ""
    /\ \E payload \in CodecPayloads :
        /\ codecIn' = payload
        /\ codecOut' = Ex2_parse_response(Frame(payload))
    /\ codecOp' = "ex2_parse_response"
    /\ UNCHANGED <<queries, calVars>>
    /\ UNCHANGED <<reasmVars, ex2Vars, sessVars>>

\* get_spectrum(serial_conn, start_freq, stop_freq): the command it writes
GetSpectrum ==
    /\ codecOp = ""
    /\ \E start_freq \in Freqs, stop_freq \in Freqs :
        /\ codecIn' = <<start_freq, stop_freq, 2, 3, 0>>
        /\ codecOut' = get_spectrum(start_freq, stop_freq)
    /\ codecOp' = "get_spectrum"
    /\ UNCHANGED <<queries, calVars>>
    /\ UNCHANGED <<reasmVars, ex2Vars, sessVars>>

\* get_spectrum_float(serial_conn, start_freq, stop_freq, rfin, bw, speed):
\* the command it writes
GetSpectrumFloat ==
    /\ codecOp = ""
    /\ \E start_freq \in Freqs, stop_freq \in Freqs, rfin \in U8s, bw \in U8s, speed \in U8s :
        /\ codecIn' = <<start_freq, stop_freq, rfin, bw, speed>>
        /\ codecOut' = get_spectrum_float_command(start_freq, stop_freq, rfin, bw, speed)
    /\ codecOp' = "get_spectrum_float"
    /\ UNCHANGED <<queries, calVars>>
    /\ UNCHANGED <<reasmVars, ex2Vars, sessVars>>

\* Byte strings handed to the two checksum functions
MaxBytes == 3
ByteSamples == {0, 1, 128, 255}
ByteStrings == UNION { [1..n -> ByteSamples] : n \in 0..MaxBytes }

\* fletcher_checksum(data) of both programs on the same bytes
FletcherChecksum ==
    /\ codecOp = ""
    /\ \E data \in ByteStrings :
        /\ codecIn' = data
        /\ codecOut' = <<fletcher_checksum(data), Ex2_fletcher_checksum(data)>>
    /\ codecOp' = "fletcher_checksum"
    /\ UNCHANGED <<queries, calVars>>
    /\ UNCHANGED <<reasmVars, ex2Vars, sessVars>>

InitCodec ==
    InitExtVars /\ InitReasmVars /\ InitEx2Vars /\ serial_conn = FALSE /\ InitSessVars

NextCodec ==
    \/ ParseResponse
    \/ Ex2ParseResponse
    \/ GetSpectrum
    \/ GetSpectrumFloat
    \/ FletcherChecksum

SpecCodec == InitCodec /\ [][NextCodec]_vars

----------------------------------------------------------------------------
(* ex2_Test.py: the range handlers, and the calibration thread that shares   *)
(* self.serial_conn and self.scan_ranges with the Tk main loop.              *)

\* What the device answers while calibration runs: nothing, a spectrum, a
\* payload that is not a whole number of floats
PollResponses == { <<>>, Frame(SpectrumPayload(<<0, 0, MaxAmp>>)), Frame(<<1, 2>>) }

\* What it may answer to a query of a calibration: the same, or a weaker spectrum
CalibResponses == PollResponses \cup { Frame(SpectrumPayload(<<0, 1, 0>>)) }

\* a query of the polling cycle, as in QueryOutcome
PollOutcomes == { QueryOutcome(rx, FALSE) : rx \in PollResponses }

\* round(num / den, 1), in tenths: the nearest tenth, which is exact for the
\* multiples of 0.5 that arise here
round1(num, den) == (20 * num + den) \div (2 * den)

\* A variant that takes a query without a response as a sample of 0
CalOutcome_ZeroOnFailure(rx) ==
    LET r == get_spectrum_float(rx, FALSE) IN
    IF r.raised THEN [kind |-> "raise", amp |-> 0]
    ELSE IF ~r.ok THEN [kind |-> "amp", amp |-> 0]
    ELSE IF r.mags = <<>> THEN [kind |-> "raise", amp |-> 0]
    ELSE [kind |-> "amp", amp |-> SeqMax([i \in 1..Len(r.mags) |-> F32Value(r.mags[i])])]

\* a query of calibration_process: mags.max() of the decoded response
CalOutcome(rx) ==
    LET r == get_spectrum_float(rx, FALSE) IN
    IF r.raised THEN [kind |-> "raise", amp |-> 0]
    ELSE IF ~r.ok THEN [kind |-> "none", amp |-> 0]
    ELSE IF r.mags = <<>> THEN [kind |-> "raise", amp |-> 0]
    ELSE [kind |-> "amp", amp |-> SeqMax([i \in 1..Len(r.mags) |-> F32Value(r.mags[i])])]

CalOutcomes == { CalOutcome(rx) : rx \in CalibResponses }

\* del lst[index]
DelAt(lst, index) == [k \in 1..(Len(lst) - 1) |-> IF k < index THEN lst[k] ELSE lst[k + 1]]

\* What the operator types into the three askfloat dialogs (MHz, MHz, dBm)
\* A threshold is kept in tenths of a dBm.
DialogInputs == { [start |-> 800, stop |-> 1150, threshold |-> 0] }

\* int(start_freq * 1e6), int(stop_freq * 1e6), threshold
RangeOf(d) ==
    [start |-> d.start * 1000000, stop |-> d.stop * 1000000,
     threshold |-> <<10 * d.threshold>>]

\* The Tk main loop is between two callbacks
MainIdle == mainPc = "idle" /\ "main" \notin exchanging

\* A variant of add_range without self.ema_values.append(None)
AddRange_NoEma ==
    /\ MainIdle
    /\ Len(scan_ranges) < MaxRanges
    /\ \E d \in DialogInputs :
        scan_ranges' = Append(scan_ranges, RangeOf(d))
    /\ alert_flags' = Append(alert_flags, FALSE)
    /\ stability_counter' = Append(stability_counter, 0)
    /\ run' = Append(run, 0)
    /\ sinceLow' = Append(sinceLow, 0)
    /\ UNCHANGED <<serial_conn, ema_values, mainPc, bgI, lastFrame, alertLog, emaSteps>>
    /\ UNCHANGED <<reasmVars, sessVars, extVars>>

\* add_range, the three dialogs answered
AddRange ==
    /\ MainIdle
    /\ Len(scan_ranges) < MaxRanges
    /\ \E d \in DialogInputs :
        scan_ranges' = Append(scan_ranges, RangeOf(d))
    /\ alert_flags' = Append(alert_flags, FALSE)
    /\ ema_values' = Append(ema_values, <<>>)
    /\ stability_counter' = Append(stability_counter, 0)
    /\ run' = Append(run, 0)
    /\ sinceLow' = Append(sinceLow, 0)
    /\ UNCHANGED <<serial_conn, mainPc, bgI, lastFrame, alertLog, emaSteps>>
    /\ UNCHANGED <<reasmVars, sessVars, extVars>>

\* edit_range of the selected entry, the three dialogs answered
EditRange ==
    /\ MainIdle
    /\ \E index \in 1..Len(scan_ranges), d \in DialogInputs :
        scan_ranges' = [scan_ranges EXCEPT ![index] = RangeOf(d)]
    /\ UNCHANGED <<serial_conn, alert_flags, ema_values, stability_counter, mainPc, bgI,
                   lastFrame, alertLog, run, sinceLow, emaSteps>>
    /\ UNCHANGED <<reasmVars, sessVars, extVars>>

\* delete_range of the selected entry
DeleteRange ==
    /\ MainIdle
    /\ \E index \in 1..Len(scan_ranges) :
        /\ scan_ranges' = DelAt(scan_ranges, index)
        /\ alert_flags' = DelAt(alert_flags, index)
        /\ ema_values' = DelAt(ema_values, index)
        /\ stability_counter' = DelAt(stability_counter, index)
        /\ run' = DelAt(run, index)
        /\ sinceLow' = DelAt(sinceLow, index)
    /\ UNCHANGED <<serial_conn, mainPc, bgI, lastFrame, alertLog, emaSteps>>
    /\ UNCHANGED <<reasmVars, sessVars, extVars>>

\* start_calibration: the thread is started
StartCalibration ==
    /\ MainIdle
    /\ calPc = "off"
    /\ calPc' = "for"
    /\ calI' = 1
    /\ UNCHANGED <<calLocal, calAmps, calLeft, exchanging, calWrote, updateChains>>
    /\ UNCHANGED <<reasmVars, ex2Vars, sessVars, codecVars, queries>>

\* get_spectrum_float of the polling cycle (the display query of
\* update_spectrum, or the query of a range in background_processing) has
\* written its command and waits for the response
PollWrite ==
    /\ serial_conn
    /\ "main" \notin exchanging
    /\ emaSteps < MaxCalPolls
    /\ \/ mainPc = "idle" /\ scan_ranges # <<>>
       \/ mainPc = "bg" /\ bgI <= Len(scan_ranges)
    /\ exchanging' = exchanging \cup {"main"}
    /\ UNCHANGED <<calPc, calI, calLocal, calAmps, calLeft, calWrote, updateChains>>
    /\ UNCHANGED <<reasmVars, ex2Vars, sessVars, codecVars, queries>>

\* the response of that query is parsed and processed, as in
\* UpdateSpectrumDisplay and BackgroundStep
PollRead ==
    /\ "main" \in exchanging
    /\ exchanging' = exchanging \ {"main"}
    /\ \E o \in PollOutcomes :
        /\ lastFrame' = o.frame
        /\ IF mainPc = "idle"
           THEN /\ bgI' = 1
                /\ IF o.kind = "none"
                   THEN /\ mainPc' = "bg"
                        /\ UNCHANGED <<ema_values, emaSteps>>
                   ELSE IF o.kind = "raise"
                   THEN /\ mainPc' = "dead"
                        /\ UNCHANGED <<ema_values, emaSteps>>
                   ELSE /\ mainPc' = "bg"
                        /\ ema_values' = [ema_values EXCEPT
                                             ![1] = <<update_ema(ema_values[1], o.amp)>>]
                        /\ emaSteps' = emaSteps + 1
                /\ UNCHANGED <<stability_counter, alert_flags, alertLog, run, sinceLow>>
           ELSE IF o.kind = "none"
           THEN /\ bgI' = bgI + 1
                /\ UNCHANGED <<mainPc, ema_values, emaSteps, stability_counter,
                               alert_flags, alertLog, run, sinceLow>>
           ELSE IF o.kind = "raise"
           THEN /\ mainPc' = "dead"
                /\ UNCHANGED <<bgI, ema_values, emaSteps, stability_counter,
                               alert_flags, alertLog, run, sinceLow>>
           ELSE /\ Detect(bgI, o.amp)
                /\ bgI' = bgI + 1
                /\ UNCHANGED mainPc
    /\ UNCHANGED <<serial_conn, scan_ranges>>
    /\ UNCHANGED <<calPc, calI, calLocal, calAmps, calLeft, calWrote, updateChains>>
    /\ UNCHANGED <<reasmVars, sessVars, codecVars, queries>>

\* calibration_process, `for i, (start, stop, _) in enumerate(self.scan_ranges)`:
\* the next item is taken, or the list is exhausted
CalForNext ==
    /\ calPc = "for"
    /\ IF calI <= Len(scan_ranges)
       THEN /\ calLocal' = [start |-> scan_ranges[calI].start, stop |-> scan_ranges[calI].stop]
            /\ calAmps' = <<>>
            /\ calLeft' = MaxCalQueries
            /\ calPc' = "query"
       ELSE /\ calPc' = "sleep"
            /\ UNCHANGED <<calLocal, calAmps, calLeft>>
    /\ UNCHANGED <<calI, exchanging, calWrote, updateChains>>
    /\ UNCHANGED <<reasmVars, ex2Vars, sessVars, codecVars, queries>>

\* get_spectrum_float(self.serial_conn, start, stop) of the thread has written
\* its command (None has no write: the thread ends with AttributeError)
CalQueryWrite ==
    /\ calPc = "query"
    /\ IF serial_conn
       THEN /\ exchanging' = exchanging \cup {"calib"}
            /\ calPc' = "response"
       ELSE /\ calPc' = "dead"
            /\ UNCHANGED exchanging
    /\ UNCHANGED <<calI, calLocal, calAmps, calLeft, calWrote, updateChains>>
    /\ UNCHANGED <<reasmVars, ex2Vars, sessVars, codecVars, queries>>

\* the response of the thread's query: amplitudes.append(mags.max())
CalQueryRead ==
    /\ calPc = "response"
    /\ exchanging' = exchanging \ {"calib"}
    /\ \E o \in CalOutcomes :
        IF o.kind = "raise"
        THEN /\ calPc' = "dead"
             /\ UNCHANGED <<calAmps, calLeft>>
        ELSE /\ calAmps' = IF o.kind = "amp" THEN Append(calAmps, o.amp) ELSE calAmps
             /\ calLeft' = calLeft - 1
             /\ calPc' = IF calLeft = 1 THEN "store" ELSE "query"
    /\ UNCHANGED <<calI, calLocal, calWrote, updateChains>>
    /\ UNCHANGED <<reasmVars, ex2Vars, sessVars, codecVars, queries>>

\* `if amplitudes: self.scan_ranges[i] = (start, stop, round(max + 1, 1))`
\* (IndexError ends the thread), and the loop goes on to the next item
CalStore ==
    /\ calPc = "store"
    /\ IF calAmps = <<>>
       THEN /\ calI' = calI + 1
            /\ calPc' = "for"
            /\ UNCHANGED <<scan_ranges, calWrote>>
       ELSE IF calI > Len(scan_ranges)
       THEN /\ calPc' = "dead"
            /\ UNCHANGED <<scan_ranges, calWrote, calI>>
       ELSE LET entry == [start |-> calLocal.start, stop |-> calLocal.stop,
                          threshold |-> <<round1(SeqMax(calAmps) + 1, 1)>>]
            IN /\ scan_ranges' = [scan_ranges EXCEPT ![calI] = entry]
               /\ calWrote' = << [index |-> calI, before |-> scan_ranges[calI],
                                   after |-> entry] >>
               /\ calI' = calI + 1
               /\ calPc' = "for"
    /\ UNCHANGED <<calLocal, calAmps, calLeft, exchanging, updateChains>>
    /\ UNCHANGED <<serial_conn, alert_flags, ema_values, stability_counter, mainPc, bgI,
                   lastFrame, alertLog, run, sinceLow, emaSteps>>
    /\ UNCHANGED <<reasmVars, sessVars, codecVars, queries>>

\* time.sleep(1), then the next round of `while time.time() < end_time`
CalSleep ==
    /\ calPc = "sleep"
    /\ calPc' = "for"
    /\ calI' = 1
    /\ UNCHANGED <<calLocal, calAmps, calLeft, exchanging, calWrote, updateChains>>
    /\ UNCHANGED <<reasmVars, ex2Vars, sessVars, codecVars, queries>>

\* `while time.time() < end_time` is over: the thread goes on to
\* self.update_range_listbox() and self.update_spectrum()
CalTimeUp ==
    /\ calPc = "sleep"
    /\ updateChains <= MaxCalRuns
    /\ calPc' = "update"
    /\ UNCHANGED <<calI, calLocal, calAmps, calLeft, exchanging, calWrote, updateChains>>
    /\ UNCHANGED <<reasmVars, ex2Vars, sessVars, codecVars, queries>>

\* update_spectrum run by the thread, up to background_processing: the
\* display query and the EMA update at index 0
CalUpdateDisplay ==
    /\ calPc = "update"
    /\ calI' = 1
    /\ IF ~serial_conn \/ scan_ranges = <<>>
       THEN /\ calPc' = IF serial_conn THEN "updatebg" ELSE "after"
            /\ UNCHANGED <<ema_values, emaSteps>>
       ELSE /\ emaSteps < MaxCalPolls
            /\ \E o \in PollOutcomes :
                IF o.kind = "none"
                THEN /\ calPc' = "updatebg"
                     /\ UNCHANGED <<ema_values, emaSteps>>
                ELSE IF o.kind = "raise"
                THEN /\ calPc' = "dead"
                     /\ UNCHANGED <<ema_values, emaSteps>>
                ELSE /\ calPc' = "updatebg"
                     /\ ema_values' = [ema_values EXCEPT
                                          ![1] = <<update_ema(ema_values[1], o.amp)>>]
                     /\ emaSteps' = emaSteps + 1
    /\ UNCHANGED <<calLocal, calAmps, calLeft, exchanging, calWrote, updateChains>>
    /\ UNCHANGED <<serial_conn, scan_ranges, alert_flags, stability_counter, mainPc, bgI,
                   lastFrame, alertLog, run, sinceLow>>
    /\ UNCHANGED <<reasmVars, sessVars, codecVars, queries>>

\* one iteration of background_processing run by the thread, or its end
CalUpdateBackground ==
    /\ calPc = "updatebg"
    /\ IF calI > Len(scan_ranges)
       THEN /\ calPc' = "after"
            /\ UNCHANGED <<calI, ema_values, emaSteps, stability_counter, alert_flags,
                           alertLog, run, sinceLow>>
       ELSE /\ emaSteps < MaxCalPolls
            /\ \E o \in PollOutcomes :
                IF o.kind = "none"
                THEN /\ calI' = calI + 1
                     /\ UNCHANGED <<calPc, ema_values, emaSteps, stability_counter,
                                    alert_flags, alertLog, run, sinceLow>>
                ELSE IF o.kind = "raise"
                THEN /\ calPc' = "dead"
                     /\ UNCHANGED <<calI, ema_values, emaSteps, stability_counter,
                                    alert_flags, alertLog, run, sinceLow>>
                ELSE /\ Detect(calI, o.amp)
                     /\ calI' = calI + 1
                     /\ UNCHANGED calPc
    /\ UNCHANGED <<calLocal, calAmps, calLeft, exchanging, calWrote, updateChains>>
    /\ UNCHANGED <<serial_conn, scan_ranges, mainPc, bgI, lastFrame>>
    /\ UNCHANGED <<reasmVars, sessVars, codecVars, queries>>

\* the last line of update_spectrum run by the thread:
\* self.root.after(500, self.update_spectrum).  Tk is called from outside
\* its thread: the callback is scheduled, or the call raises
CalUpdateAfter ==
    /\ calPc = "after"
    /\ \E scheduled \in BOOLEAN :
        IF scheduled
        THEN /\ updateChains' = updateChains + 1
             /\ calPc' = "off"
        ELSE /\ calPc' = "dead"
             /\ UNCHANGED updateChains
    /\ UNCHANGED <<calI, calLocal, calAmps, calLeft, exchanging, calWrote>>
    /\ UNCHANGED <<reasmVars, ex2Vars, sessVars, codecVars, queries>>

InitCalib == InitEx2Vars /\ InitReasmVars /\ InitSessVars /\ InitExtVars

NextCalib ==
    \/ AddRange
    \/ EditRange
    \/ DeleteRange
    \/ StartCalibration
    \/ PollWrite
    \/ PollRead
    \/ UpdateSpectrumEnd
    \/ CalForNext
    \/ CalQueryWrite
    \/ CalQueryRead
    \/ CalStore
    \/ CalSleep
    \/ CalTimeUp
    \/ CalUpdateDisplay
    \/ CalUpdateBackground
    \/ CalUpdateAfter

SpecCalib == InitCalib /\ [][NextCalib]_vars

----------------------------------------------------------------------------
(* Claims about the reassembler *)

Packets(es) == [i \in 1..Len(es) |-> es[i].packet]

\* C1: chunking invariance.  Whatever chunks the bytes fed so far arrived in,
\* the frames emitted are those emitted when the same bytes are fed to an
\* empty buffer as one block.
C1_ChunkingInvariance == emitted = Ingest(<<>>, fed).frames

\* a frame of 6 bytes that arrived one or two bytes at a time and was emitted
C1_Witness == reads >= 3 /\ Len(fed) = 6 /\ Len(emitted) = 1

\* C2: a stray marker byte (or a stray candidate that fails validation) in
\* front of valid frames costs only itself: once the stream is delivered,
\* every valid frame that followed it has been emitted.
C2_StrayMarkerSkipsNothing ==
    (script \in StrayThenFrames /\ pending = <<>>) =>
        \E k \in 1..2 :
            /\ Packets(emitted) = [i \in 1..k |-> Frame(<<>>)]
            /\ script \in { <<Marker>> \o Repeat(Frame(<<>>), k),
                            Header(<<>>) \o Repeat(Frame(<<>>), k) }

\* C3: a complete frame with a wrong checksum directly followed by a valid
\* frame: the corrupted frame is never emitted, and once both are delivered
\* exactly the valid frame has been emitted and no byte is left over.
C3_CorruptThenValid ==
    \A c \in CorruptFrames, v \in ValidFrames :
        script = c \o v =>
            /\ Len(emitted) <= 1
            /\ \A i \in 1..Len(emitted) : emitted[i].packet = v
            /\ pending = <<>> => (Len(emitted) = 1 /\ buffer = <<>>)

\* both frames delivered in several reads, the valid one emitted
C3_Witness ==
    /\ script \in CorruptThenValid
    /\ pending = <<>>
    /\ reads >= 2
    /\ Len(emitted) = 1

\* C4: a valid frame behind noise bytes is emitted exactly once wherever the
\* delivery is split; the bytes before the marker are gone from the buffer as
\* soon as the marker is in it; a payload of 8 bytes gives 1 amplitude and 1 frequency.
C4_NoiseThenFrame ==
    \A n \in NoisePrefixes, f \in ValidFrames :
        script = n \o f =>
            /\ Len(emitted) <= 1
            /\ \A i \in 1..Len(emitted) :
                /\ emitted[i].packet = f
                /\ U16LE(f, 3) = 8 =>
                    (Len(emitted[i].mags) = 1 /\ Len(emitted[i].freqs) = 1)
            /\ FindMarker(buffer) # 0 => buffer[1] = Marker
            /\ pending = <<>> => (Len(emitted) = 1 /\ buffer = <<>>)

\* 0xAA 0xAA and a frame of payloadLength 8, delivered one byte per read
C4_Witness ==
    /\ script = <<170, 170>> \o Frame(F32_2 \o F32_1)
    /\ pending = <<>>
    /\ reads = Len(script)
    /\ Len(emitted) = 1
    /\ Len(emitted[1].mags) = 1

\* C6: after every ingest the buffer is empty, or starts with the marker and
\* is a strict prefix of one candidate frame; bytes without a marker are not kept.
C6_BufferShape ==
    \/ buffer = <<>>
    \/ /\ buffer[1] = Marker
       /\ (Len(buffer) < 4 \/ Len(buffer) < 6 + U16LE(buffer, 3))

----------------------------------------------------------------------------
(* Claims about the frames passed downstream and about the detection *)

\* marker, command, declared length and trailing checksum of a frame
WellFormedFrame(f) ==
    /\ Len(f) >= 6
    /\ f[1] = Marker
    /\ f[2] = GET_SPECTRUM_FLOAT
    /\ Len(f) = 6 + U16LE(f, 3)
    /\ <<f[Len(f) - 1], f[Len(f)]>> = fletcher_checksum(SubSeq(f, 1, Len(f) - 2))

\* C5: every frame whose samples go downstream, in either variant, starts
\* with 0xBB, has command 0xC2, holds exactly the declared payload and ends
\* with the checksum (a, b) of its first 4 + payloadLength bytes.
C5_FramesWellFormed ==
    /\ \A i \in 1..Len(emitted) : WellFormedFrame(emitted[i].packet)
    /\ lastFrame # <<>> => WellFormedFrame(lastFrame)

\* C7: an alert is emitted only at a cycle that is at least the
\* stability_duration-th of a run of consecutive cycles above thresholdHigh.
C7_AlertOnlyAfterSustainedRun ==
    \A k \in 1..Len(alertLog) : alertLog[k].run >= stability_duration

\* C8: per range, at most one alert between two cycles at or below
\* thresholdLow, the alert flag is set exactly while that alert stands, and a
\* run of stability_duration or more cycles above thresholdHigh has it emitted.
C8_OneAlertUntilLow ==
    \A i \in 1..Len(scan_ranges) :
        /\ sinceLow[i] <= 1
        /\ alert_flags[i] <=> (sinceLow[i] = 1)
        /\ run[i] >= stability_duration => sinceLow[i] = 1

\* a run that went on after its alert: four cycles above, still one alert
C8_Witness ==
    /\ run[1] > stability_duration
    /\ sinceLow[1] = 1
    /\ Len(alertLog) = 1

----------------------------------------------------------------------------
(* Claims about the device session *)

\* C9: the reader loop ends only on an explicit shutdown request: whenever
\* run() has left its loop, closeEvent has asked for it; a failed read sends
\* the session back to connecting instead.
C9_ReaderStopsOnlyOnShutdown ==
    wpc \in {"finally", "return", "done"} => mainStage # "open"

\* C10: a connect loop is left only with the port opened: every failed
\* attempt (no port found, or the open raised a serial error) keeps the
\* session connecting, and no exception ends run().
C10_ConnectLoopExitsOnlyConnected ==
    [][ /\ wpc = "connect" =>
             (wpc' = "connect" /\ ser' = ser) \/ (wpc' = "arduino" /\ ser' = "open")
        /\ wpc = "reconnect" =>
             (wpc' = "reconnect" /\ ser' \in {ser, "closed"}) \/ (wpc' = "query" /\ ser' = "open")
      ]_vars

\* the first connect failed twice, then opened the port
C10_Witness ==
    /\ connectFails >= 2
    /\ wpc = "arduino"
    /\ ser = "open"

----------------------------------------------------------------------------
(* Claims about the frame codec *)

\* C17: a response whose payload holds an even number 2m of floats decodes,
\* in both variants, to m amplitudes and m frequencies: amplitude i is float
\* i of the payload, frequency i is float m + i divided by 1e6.
C17_EvenCountPairs ==
    (codecOp \in {"parse_response", "ex2_parse_response"} /\ Len(codecIn) % 8 = 0) =>
        LET m == Len(codecIn) \div 8 IN
        /\ codecOut.ok
        /\ Len(codecOut.mags) = m
        /\ Len(codecOut.freqs) = m
        /\ \A i \in 1..m :
            /\ codecOut.mags[i] = SubSeq(codecIn, 4 * i - 3, 4 * i)
            /\ codecOut.freqs[i] =
                   [hz |-> SubSeq(codecIn, 4 * (m + i) - 3, 4 * (m + i)), div |-> 1000000]

\* four floats decoded by arduino_spectr.py into two pairs
C17_Witness ==
    /\ codecOp = "parse_response"
    /\ Len(codecIn) = 16
    /\ codecOut.ok
    /\ Len(codecOut.mags) = 2

\* C18: a frame with a valid checksum whose payload holds an odd number of
\* floats yields no samples in either variant.
C18_OddCountRejected ==
    ( /\ codecOp \in {"parse_response", "ex2_parse_response"}
      /\ Len(codecIn) % 4 = 0
      /\ (Len(codecIn) \div 4) % 2 = 1 ) => ~codecOut.ok

\* C19: the command either variant builds passes the checksum test of a
\* response: its last two bytes, read as crcA | (crcB << 8), are the checksum
\* of its first 23 bytes, and the u16 comparison of arduino_spectr.py and the
\* byte-pair comparison of ex2_Test.py both accept it.
C19_QueryChecksumValidates ==
    codecOp \in {"get_spectrum", "get_spectrum_float"} =>
        /\ Len(codecOut) = 25
        /\ LET ck == fletcher_checksum(SubSeq(codecOut, 1, 23))
           IN codecOut[24] + 256 * codecOut[25] = ck[1] + 256 * ck[2]
        /\ CrcAcceptsU16(codecOut)
        /\ CrcAcceptsBytes(codecOut)

\* a command with rfin = bw = speed = 255 between the ends of the u64 range
C19_Witness ==
    /\ codecOp = "get_spectrum_float"
    /\ codecIn = <<U64(0, 0, 0, 0), U64(65535, 65535, 65535, 65535), 255, 255, 255>>
    /\ CrcAcceptsU16(codecOut)
    /\ CrcAcceptsBytes(codecOut)

\* C20: a command is 25 bytes: 0xBB, 0xC2, the length 19 as a little-endian
\* u16, start and stop as little-endian u64, rfin, bw, speed (2, 3, 0 in
\* get_spectrum), then the two checksum bytes of the 23 bytes before them.
C20_QueryLayout ==
    codecOp \in {"get_spectrum", "get_spectrum_float"} =>
        /\ Len(codecOut) = 25
        /\ codecOut[1] = 187 /\ codecOut[2] = 194
        /\ codecOut[3] = 19 /\ codecOut[4] = 0
        /\ \A j \in 1..4 :
            /\ codecOut[3 + 2 * j] + 256 * codecOut[4 + 2 * j] = codecIn[1][j]
            /\ codecOut[11 + 2 * j] + 256 * codecOut[12 + 2 * j] = codecIn[2][j]
        /\ <<codecOut[21], codecOut[22], codecOut[23]>> = <<codecIn[3], codecIn[4], codecIn[5]>>
        /\ codecOp = "get_spectrum" => <<codecOut[21], codecOut[22], codecOut[23]>> = <<2, 3, 0>>
        /\ <<codecOut[24], codecOut[25]>> = fletcher_checksum(SubSeq(codecOut, 1, 23))

\* the default window of get_spectrum, 800 MHz to 4800 MHz
C20_Witness ==
    /\ codecOp = "get_spectrum"
    /\ codecIn[1] = Hz800M
    /\ codecIn[2] = Hz4800M
    /\ SubSeq(codecOut, 5, 20) = <<0, 8, 175, 47, 0, 0, 0, 0, 0, 48, 26, 30, 1, 0, 0, 0>>

----------------------------------------------------------------------------
(* Claims about reconnection, shutdown and the alert rate *)

\* C11: when the session has reconnected (connect_to_device succeeded in the
\* loop that follows a closed transport), the reassembly buffer is empty: no
\* byte received before the reconnect is left to be joined with later ones.
C11_BufferEmptyOnReconnect == wpc = "query" => buffer = <<>>

\* C14: a stop request is not lost: once closeEvent has cleared the flag of a
\* running reader, the flag stays cleared, so the reader leaves its loop at
\* the next test, wherever it was when the request arrived.
C14_StopRequestNotLost ==
    (mainStage # "open" /\ wpc \in {"loop", "read", "reconnect", "query"}) => ~running

\* C15: once closeEvent has returned both ports are closed and stay closed,
\* and no query is written to the primary port after the shutdown request.
C15_ClosedAfterShutdown ==
    /\ \A q \in queries : q.stage = "open"
    /\ mainStage = "closed" => (ser # "open" /\ arduino_conn # "open")

\* C16: any two alert_triggered emissions of a session are more than
\* min_alert_interval apart (so one frame emits at most one alert), and
\* last_alert_time is the time of the last emission.
C16_AlertSpacing ==
    /\ \A k \in 1..(Len(alerts) - 1) :
          alerts[k + 1].time - alerts[k].time > min_alert_interval * TicksPerSecond
    /\ Len(alerts) > 0 => last_alert_time = alerts[Len(alerts)].time

\* two frames with two samples above the threshold each: one alert per frame
C16_Witness ==
    /\ Len(emitted) = 2
    /\ \A i \in 1..2 : emitted[i].packet = LoudFrame
    /\ Len(alerts) = 2

----------------------------------------------------------------------------
(* Claims about the tasks that share the transport and the range registry *)

\* C12: at any time at most one task is inside a query/response exchange on
\* the primary transport: the polling callback and the calibration thread
\* never both have a query out.
C12_OneExchangeAtATime == Cardinality(exchanging) <= 1

\* C13: a write of the calibration thread to scan_ranges[i] changes only the
\* threshold of the very entry its iteration read: no add, edit or delete of
\* the main task comes between its read and its write, so no edit is
\* overwritten and no other range is written at the index.
C13_CalibrationWritesItsEntry ==
    /\ \A k \in 1..Len(calWrote) :
        /\ calWrote[k].before.start = calWrote[k].after.start
        /\ calWrote[k].before.stop = calWrote[k].after.stop
    /\ calPc = "store" /\ calAmps # <<>> => calI <= Len(scan_ranges)

\* ---------------------------------------------------------------------
\* The polling cycle of ex2_Test.py over several ranges: the operator adds
\* ranges before the first spectrum is processed, then the cycle runs
\* ---------------------------------------------------------------------
AddRangeBeforeScan == emaSteps = 0 /\ AddRange

InitScan == InitEx2

NextScan ==
    \/ AddRangeBeforeScan
    \/ UpdateSpectrumNoConn
    \/ UpdateSpectrumDisplay
    \/ BackgroundStep
    \/ UpdateSpectrumEnd

SpecScan == InitScan /\ [][NextScan]_vars

\* ---------------------------------------------------------------------
\* The main thread of ex2_Test.py without the calibration thread: the three
\* range handlers between the queries of the polling cycle
\* ---------------------------------------------------------------------
InitRanges == InitEx2

NextRanges ==
    \/ AddRange
    \/ EditRange
    \/ DeleteRange
    \/ PollWrite
    \/ PollRead
    \/ UpdateSpectrumEnd

SpecRanges == InitRanges /\ [][NextRanges]_vars

\* ---------------------------------------------------------------------
\* The thresholds of ex2_Test.py: auto_calibrate_thresholds inside __init__,
\* then calibration_process, with ranges added only while no calibration runs
\* ---------------------------------------------------------------------

\* __init__ at the call of auto_calibrate_thresholds (line 148): the one
\* range has no threshold yet; i, (start, stop), amplitudes and the queries
\* left of the loop are kept in calI, calLocal, calAmps, calLeft
InitAutoCal ==
    /\ serial_conn \in BOOLEAN
    /\ scan_ranges = << [start |-> Range0.start, stop |-> Range0.stop, threshold |-> <<>>] >>
    /\ alert_flags = <<FALSE>>
    /\ ema_values = << <<>> >>
    /\ stability_counter = <<0>>
    /\ mainPc = "auto"
    /\ bgI = 1
    /\ lastFrame = <<>>
    /\ alertLog = <<>>
    /\ run = <<0>>
    /\ sinceLow = <<0>>
    /\ emaSteps = 0
    /\ queries = {}
    /\ codecOp = ""
    /\ codecIn = <<>>
    /\ codecOut = <<>>
    /\ calPc = "off"
    /\ calI = 1
    /\ calLocal = <<>>
    /\ calAmps = <<>>
    /\ calLeft = 0
    /\ exchanging = {}
    /\ calWrote = <<>>
    /\ updateChains = 0

\* auto_calibrate_thresholds: `if self.serial_conn` and the next item of
\* `for i, (start, stop, _) in enumerate(self.scan_ranges)`
AutoCalForNext ==
    /\ mainPc = "auto"
    /\ IF serial_conn /\ calI <= Len(scan_ranges)
       THEN /\ calLocal' = [start |-> scan_ranges[calI].start, stop |-> scan_ranges[calI].stop]
            /\ calAmps' = <<>>
            /\ calLeft' = MaxCalQueries
            /\ mainPc' = "autoquery"
            /\ UNCHANGED updateChains
       ELSE \* __init__ goes on to self.update_spectrum() (line 151)
            /\ mainPc' = "idle"
            /\ updateChains' = 1
            /\ UNCHANGED <<calLocal, calAmps, calLeft>>
    /\ UNCHANGED <<calPc, calI, exchanging, calWrote>>
    /\ UNCHANGED <<serial_conn, scan_ranges, alert_flags, ema_values, stability_counter, bgI,
                   lastFrame, alertLog, run, sinceLow, emaSteps>>
    /\ UNCHANGED <<reasmVars, sessVars, codecVars, queries>>

\* one of its queries: `if mags is not None: amplitudes.append(mags.max())`
\* (an exception leaves __init__)
AutoCalQuery ==
    /\ mainPc = "autoquery"
    /\ \E o \in CalOutcomes :
        IF o.kind = "raise"
        THEN /\ mainPc' = "dead"
             /\ UNCHANGED <<calAmps, calLeft>>
        ELSE /\ calAmps' = IF o.kind = "amp" THEN Append(calAmps, o.amp) ELSE calAmps
             /\ calLeft' = calLeft - 1
             /\ mainPc' = IF calLeft = 1 THEN "autostore" ELSE "autoquery"
    /\ UNCHANGED <<calPc, calI, calLocal, exchanging, calWrote, updateChains>>
    /\ UNCHANGED <<serial_conn, scan_ranges, alert_flags, ema_values, stability_counter, bgI,
                   lastFrame, alertLog, run, sinceLow, emaSteps>>
    /\ UNCHANGED <<reasmVars, sessVars, codecVars, queries>>

\* `if amplitudes: self.scan_ranges[i] = (start, stop, round(median + 1, 1))`
AutoCalStore ==
    /\ mainPc = "autostore"
    /\ IF calAmps = <<>>
       THEN UNCHANGED scan_ranges
       ELSE scan_ranges' = [scan_ranges EXCEPT ![calI] =
                [start |-> calLocal.start, stop |-> calLocal.stop,
                 threshold |-> <<round1(Median2(calAmps) + 2, 2)>>]]
    /\ calI' = calI + 1
    /\ mainPc' = "auto"
    /\ UNCHANGED <<calPc, calLocal, calAmps, calLeft, exchanging, calWrote, updateChains>>
    /\ UNCHANGED <<serial_conn, alert_flags, ema_values, stability_counter, bgI,
                   lastFrame, alertLog, run, sinceLow, emaSteps>>
    /\ UNCHANGED <<reasmVars, sessVars, codecVars, queries>>

\* add_range while no calibration thread runs
AddRangeNoCal == calPc = "off" /\ AddRange

NextThresholds ==
    \/ AutoCalForNext
    \/ AutoCalQuery
    \/ AutoCalStore
    \/ AddRangeNoCal
    \/ StartCalibration
    \/ CalForNext
    \/ CalQueryWrite
    \/ CalQueryRead
    \/ CalStore
    \/ CalSleep

InitThresholds == InitAutoCal /\ InitReasmVars /\ InitSessVars

SpecThresholds == InitThresholds /\ [][NextThresholds]_vars

\* ---------------------------------------------------------------------
\* C21  checksum(bytes) is the pair (a, b) obtained from a = 0, b = 0 by
\* a := (a + byte) mod 256 and then b := (b + a) mod 256 for each byte in
\* order; both are in 0..255, and the implementations of the two programs
\* return the same pair on every input.
\* ---------------------------------------------------------------------
RECURSIVE ChecksumStates(_)
ChecksumStates(bytes) ==
    IF bytes = <<>> THEN << <<0, 0>> >>
    ELSE LET before == ChecksumStates(SubSeq(bytes, 1, Len(bytes) - 1))
             last == before[Len(before)]
             a == (last[1] + bytes[Len(bytes)]) % 256
         IN Append(before, <<a, (last[2] + a) % 256>>)

C21_ChecksumDefinition ==
    codecOp = "fletcher_checksum" =>
        LET trail == ChecksumStates(codecIn)
        IN /\ codecOut[1] = trail[Len(trail)]
           /\ codecOut[2] = codecOut[1]
           /\ codecOut[1][1] \in 0..255
           /\ codecOut[1][2] \in 0..255

C21_Witness ==
    /\ codecOp = "fletcher_checksum"
    /\ Len(codecIn) = MaxBytes
    /\ codecIn[1] + codecIn[2] + codecIn[3] > 255
    /\ codecOut[1][1] # codecOut[1][2]
    /\ codecOut[1][2] # 0

\* ---------------------------------------------------------------------
\* C22  When a spectrum is processed for range i and its working amplitude
\* is at or below thresholdLow (the updated EMA + 1 - 0.5), the alert flag of
\* range i becomes false and its stability counter 0, no alert is raised,
\* and the flag, counter, EMA and entry of every other range stay as they
\* were.  The range is re-armed: whenever a processed spectrum is above
\* thresholdHigh with the flag false and the counter reaching
\* stability_duration, the alert is raised.
\* ---------------------------------------------------------------------
ProcessedFor(i) ==
    /\ mainPc = "bg"
    /\ bgI = i
    /\ bgI' = i + 1
    /\ emaSteps' = emaSteps + 1

\* the working amplitude of the frame that the step accepted
AmpOf(frame) == (CHOOSE o \in QueryOutcomes : o.kind = "amp" /\ o.frame = frame).amp

CycleAmp == AmpOf(lastFrame')

C22_LowCycleResetsItsRangeOnly ==
    [][\A i \in 1..Len(scan_ranges) :
          ProcessedFor(i) =>
              LET e == ema_values'[i][1] IN
              /\ 2 * CycleAmp * e.den <= 2 * e.num + e.den =>
                    /\ alert_flags'[i] = FALSE
                    /\ stability_counter'[i] = 0
                    /\ alertLog' = alertLog
                    /\ scan_ranges' = scan_ranges
                    /\ \A j \in (1..Len(scan_ranges)) \ {i} :
                          /\ alert_flags'[j] = alert_flags[j]
                          /\ stability_counter'[j] = stability_counter[j]
                          /\ ema_values'[j] = ema_values[j]
              /\ ( /\ CycleAmp * e.den > e.num + e.den
                   /\ ~alert_flags[i]
                   /\ stability_counter[i] + 1 >= stability_duration ) =>
                    /\ alert_flags'[i]
                    /\ Len(alertLog') = Len(alertLog) + 1
                    /\ alertLog'[Len(alertLog')].range = i
      ]_vars

\* Range 2 has just had a cycle at or below its thresholdLow after at least
\* three samples, while range 1 has a crossing counted
C22_Witness ==
    /\ Len(scan_ranges) = 2
    /\ mainPc = "bg"
    /\ bgI = 3
    /\ lastFrame # <<>>
    /\ ema_values[2] # <<>>
    /\ ema_values[2][1].den >= 100
    /\ 2 * AmpOf(lastFrame) * ema_values[2][1].den
           <= 2 * ema_values[2][1].num + ema_values[2][1].den
    /\ ~alert_flags[2]
    /\ stability_counter[2] = 0
    /\ stability_counter[1] > 0

\* ---------------------------------------------------------------------
\* C23  scan_ranges, alert_flags, ema_values and stability_counter always
\* have the same length.  A step that lengthens them appends one entry to
\* each and the new range starts with flag false, EMA unset, counter 0; a
\* step that shortens them removes the same index from each; a step that
\* replaces a range leaves the other three lists alone.  So index i of each
\* list belongs to the same range.
\* ---------------------------------------------------------------------
SameLengths ==
    /\ Len(alert_flags) = Len(scan_ranges)
    /\ Len(ema_values) = Len(scan_ranges)
    /\ Len(stability_counter) = Len(scan_ranges)

\* after is before without its k-th element
Without(before, after, k) ==
    /\ Len(after) = Len(before) - 1
    /\ \A j \in 1..Len(after) : after[j] = IF j < k THEN before[j] ELSE before[j + 1]

\* after is before with x added at the end
Extended(before, after, x) ==
    /\ Len(after) = Len(before) + 1
    /\ \A j \in 1..Len(before) : after[j] = before[j]
    /\ after[Len(after)] = x

C23_ParallelListsAligned ==
    /\ []SameLengths
    /\ [][ /\ Len(scan_ranges') = Len(scan_ranges) + 1 =>
                /\ \A j \in 1..Len(scan_ranges) : scan_ranges'[j] = scan_ranges[j]
                /\ Extended(alert_flags, alert_flags', FALSE)
                /\ Extended(ema_values, ema_values', <<>>)
                /\ Extended(stability_counter, stability_counter', 0)
           /\ Len(scan_ranges') = Len(scan_ranges) - 1 =>
                \E k \in 1..Len(scan_ranges) :
                    /\ Without(scan_ranges, scan_ranges', k)
                    /\ Without(alert_flags, alert_flags', k)
                    /\ Without(ema_values, ema_values', k)
                    /\ Without(stability_counter, stability_counter', k)
           /\ (Len(scan_ranges') = Len(scan_ranges) /\ scan_ranges' # scan_ranges) =>
                /\ alert_flags' = alert_flags
                /\ ema_values' = ema_values
                /\ stability_counter' = stability_counter
           /\ Len(scan_ranges') \in {Len(scan_ranges) - 1, Len(scan_ranges), Len(scan_ranges) + 1}
         ]_vars

\* The initial range, whose EMA had been set, was deleted after a range was
\* added: the added range is now first and its EMA is still unset
C23_Witness ==
    /\ emaSteps > 0
    /\ Len(scan_ranges) = 1
    /\ scan_ranges[1].start # Range0.start
    /\ ema_values = << <<>> >>
    /\ alert_flags = <<FALSE>>
    /\ stability_counter = <<0>>

\* ---------------------------------------------------------------------
\* C24  Calibration sets the threshold of the range it sampled to
\* median(samples) + 1 in the pass inside __init__ and to max(samples) + 1 in
\* calibration_process, where the samples are the maxima of the queries that
\* returned a frame; with no sample, or without a connection, no threshold
\* changes; calibration never changes a start or stop frequency.
\* ---------------------------------------------------------------------

\* the k-th smallest element of s
Ranked(s, k) ==
    CHOOSE v \in {s[i] : i \in 1..Len(s)} :
        /\ Cardinality({i \in 1..Len(s) : s[i] < v}) < k
        /\ Cardinality({i \in 1..Len(s) : s[i] <= v}) >= k

\* median(s) + 1 and max(s) + 1 in tenths
MedianPlus1(s) ==
    IF Len(s) % 2 = 1 THEN 10 * Ranked(s, (Len(s) + 1) \div 2) + 10
    ELSE 5 * (Ranked(s, Len(s) \div 2) + Ranked(s, Len(s) \div 2 + 1)) + 10

MaxPlus1(s) == 10 * Ranked(s, Len(s)) + 10

\* the maxima of the responses that carry a spectrum
ValidMaxima == {1, MaxAmp}

C26_CalibrationChangesThresholdOnly ==
    [][(calPc = "store" /\ calPc' # "store") =>
          /\ Len(scan_ranges') = Len(scan_ranges)
          /\ \A j \in 1..Len(scan_ranges) :
                /\ scan_ranges'[j].start = scan_ranges[j].start
                /\ scan_ranges'[j].stop = scan_ranges[j].stop
      ]_vars

\* ---------------------------------------------------------------------
\* C27  While the main thread polls, exactly one self-rescheduling chain of
\* update_spectrum callbacks exists, however many calibrations have run.
\* ---------------------------------------------------------------------
C27_OnePollingChain ==
    mainPc # "dead" => updateChains = 1

\* ---------------------------------------------------------------------
\* C28  The EMA of a range changes only in a step that processes a spectrum
\* queried for that range; the step of update_spectrum that processes the
\* display-window spectrum changes no range's EMA, counter or alert flag.
\* ---------------------------------------------------------------------
C28_EmaOnlyFromOwnRange ==
    [][ /\ \A i \in 1..Len(scan_ranges) :
              ema_values'[i] # ema_values[i] => ProcessedFor(i)
        /\ (mainPc = "idle" /\ mainPc' = "bg") =>
              /\ ema_values' = ema_values
              /\ stability_counter' = stability_counter
              /\ alert_flags' = alert_flags
      ]_vars
====
